---- MODULE Spec2Model ----
(***************************************************************************)
(* Entry stubs, bootstrap and stack-probe shim of basm-rs                  *)
(* (src/codegen.rs, src/main.rs), one action per machine instruction.      *)
(*                                                                         *)
(* A machine word is a tuple of 16-bit limbs, least significant first      *)
(* (2 limbs on x86, 4 on x86-64), so that every addition and subtraction   *)
(* wraps at the width of the register it is done in.                       *)
(***************************************************************************)
EXTENDS Integers, Sequences, FiniteSets, TLC

\* ------------------------------------------------------------------ bounds
\* entry stack pointers tried: StackTop + 0 .. StackTop + MaxSkew
MaxSkew == 33
\* relocation-table lengths tried: 0 .. MaxRelocs
MaxRelocs == 2
\* calls of __chkstk the application makes in SpecProbe
MaxProbes == 2
\* requested frame sizes: up to MaxStrides whole strides (plus a remainder)
MaxStrides == 3
\* relocation passes applied in SpecTwice
MaxPasses == 2

\* ------------------------------------------------------- program constants
PageSize == 4096
ShadowSpace == 32
PlatformDataOffset == 72
RetOpcode == 195
LocalCallOffset == 13
ExitGroup == 231

\* ------------------------------------------------------------ machine words
LimbBase == 256 * 256

Limbs(target) == IF target = "i686_elf" THEN 2 ELSE 4

\* the word of L limbs holding the natural n < 2^31
Lit(n, L) ==
  [i \in 1..L |-> IF i = 1 THEN n % LimbBase
                  ELSE IF i = 2 THEN (n \div LimbBase) % LimbBase ELSE 0]

RECURSIVE CarryOut(_, _, _, _)
\* carry out of limb i of a + b + c
CarryOut(a, b, c, i) ==
  IF i = 0 THEN c ELSE (a[i] + b[i] + CarryOut(a, b, c, i - 1)) \div LimbBase

AddC(a, b, c) ==
  [i \in DOMAIN a |-> (a[i] + b[i] + CarryOut(a, b, c, i - 1)) % LimbBase]

NotW(a) == [i \in DOMAIN a |-> (LimbBase - 1) - a[i]]

\* add / sub of the register width
AddW(a, b) == AddC(a, b, 0)
SubW(a, b) == AddC(a, NotW(b), 1)

\* the carry flag cmp a, b leaves: 1 iff a < b unsigned
BorrowW(a, b) == 1 - CarryOut(a, NotW(b), 1, Len(a))

RECURSIVE BitAnd(_, _)
BitAnd(x, y) ==
  IF x = 0 \/ y = 0 THEN 0
  ELSE (x % 2) * (y % 2) + 2 * BitAnd(x \div 2, y \div 2)

AndW(a, m) == [i \in DOMAIN a |-> BitAnd(a[i], m[i])]

\* the immediate 0xFF..F0 / 0xFF..E0 of the width of w: all ones but the low k
MaskLow(L, k) == [i \in 1..L |-> IF i = 1 THEN LimbBase - k ELSE LimbBase - 1]

Bit0(w) == w[1] % 2

\* ------------------------------------------------------------------- state
VARIABLES
  target,   \* which build: "amd64_elf", "amd64_pe", "i686_elf", "standalone"
  mode,     \* who placed the image: "loader" or "os"
  env,      \* what the launcher set up (addresses, descriptor fields)
  pc,       \* the instruction about to execute
  reg,      \* register file
  flags,    \* carry and zero flag
  mem,      \* data memory: address word -> word
  rstack,   \* return labels of the calls in progress
  shim,     \* first byte of __chkstk
  image,    \* contents of the relocation targets, by table index
  trace,    \* calls and host interactions so far
  reads,    \* addresses the stub has loaded from
  touched,  \* addresses __chkstk has touched in the current call
  probe,    \* the current __chkstk call: size asked, caller's sp, calls made
  passes    \* relocation passes applied

vars == <<target, mode, env, pc, reg, flags, mem, rstack, shim, image, trace,
          reads, touched, probe, passes>>

Targets == {"amd64_elf", "amd64_pe", "i686_elf", "standalone"}
Modes == {"loader", "os"}

Regs(t) ==
  IF t = "i686_elf" THEN {"eax", "ecx", "edx", "edi", "esp"}
  ELSE {"rax", "rbx", "rcx", "rdx", "rsi", "rdi", "r8", "rsp"}

\* registers a called routine may change (System V: all but the callee-saved)
Volatile(t) ==
  IF t = "i686_elf" THEN {"eax", "ecx", "edx"}
  ELSE {"rax", "rcx", "rdx", "rsi", "rdi", "r8"}

WordBytes(t) == IF t = "i686_elf" THEN 4 ELSE 8
SpName(t) == IF t = "i686_elf" THEN "esp" ELSE "rsp"

Junk(L) == Lit(2989, L)
PushRcxOpcode == 81

Event(kind, fn, sp, args) == [ev |-> kind, fn |-> fn, sp |-> sp, args |-> args]

Load(a) == IF a \in DOMAIN mem THEN mem[a] ELSE Junk(Len(a))

\* ------------------------------------------------------------ environment
StackTop(L) ==
  IF L = 2 THEN <<57352, 49151>> ELSE <<57352, 65535, 32767, 0>>

EntrySps(L) == {AddW(StackTop(L), Lit(k, L)) : k \in 0..MaxSkew}

\* link-time values of the n relocation targets (for ELF, the addends)
LinkValues(n, L) == [i \in 1..n |-> Lit(PageSize * i + 16, L)]

ClobberValues(L) == {Junk(L), Lit(0, L)}

EnvElf64 ==
  [entryArg : {<<20480, 21845, 0, 0>>},
   entrySp : EntrySps(4),
   loadBase : {<<0, 16384, 21845, 0>>, <<4096, 0, 0, 0>>},
   dynOff : {Lit(12288, 4)},
   link : {LinkValues(n, 4) : n \in 0..MaxRelocs},
   clobber : ClobberValues(4)]

EnvPe ==
  [entryArg : {<<20480, 21845, 0, 0>>},
   entrySp : EntrySps(4),
   memBase : {<<512, 8192, 32767, 0>>},
   pd : {<<24576, 21845, 0, 0>>},
   pdWord0 : {Lit(43981, 4)},
   flagsWord : {Lit(f, 4) : f \in 0..3},
   leading : {Lit(0, 4), Lit(512, 4)},
   imageBase : {<<0, 16384, 1, 0>>},
   relocOff : {Lit(24576, 4)},
   relocSize : {Lit(12, 4)},
   chkstk : {<<8192, 8192, 32767, 0>>},
   link : {LinkValues(n, 4) : n \in 0..MaxRelocs},
   clobber : ClobberValues(4)]

EnvI686 ==
  [entryArg : {<<20480, 2052>>},
   entrySp : EntrySps(2),
   loadBase : {<<0, 22136>>, <<61440, 65535>>},
   startOff : {Lit(4096, 2), Lit(4101, 2)},
   dynOff : {Lit(12288, 2)},
   link : {LinkValues(n, 2) : n \in 0..MaxRelocs},
   clobber : ClobberValues(2)]

EnvStandalone ==
  [entrySp : EntrySps(4)]

Envs(t) ==
  CASE t = "amd64_elf" -> EnvElf64
    [] t = "amd64_pe" -> EnvPe
    [] t = "i686_elf" -> EnvI686
    [] t = "standalone" -> EnvStandalone

\* the address the loader-mode PE image really sits at (its virtual base)
PeVirtualBase(e) == SubW(e.memBase, e.leading)
PeDelta(e) == SubW(PeVirtualBase(e), e.imageBase)

InitReg(t, e) ==
  [r \in Regs(t) |->
     IF r = SpName(t) THEN e.entrySp
     ELSE IF r = "rcx" /\ t # "standalone" THEN e.entryArg
     ELSE Junk(Limbs(t))]

InitMem(t, e) ==
  CASE t = "amd64_pe" ->
         (e.entryArg :> e.memBase)
         @@ (AddW(e.entryArg, Lit(PlatformDataOffset, 4)) :> e.pd)
         @@ (e.pd :> e.pdWord0)
         @@ (AddW(e.pd, Lit(8, 4)) :> e.flagsWord)
         @@ (AddW(e.pd, Lit(16, 4)) :> e.leading)
         @@ (AddW(e.pd, Lit(24, 4)) :> e.imageBase)
         @@ (AddW(e.pd, Lit(32, 4)) :> e.relocOff)
         @@ (AddW(e.pd, Lit(40, 4)) :> e.relocSize)
    [] t = "i686_elf" -> (AddW(e.entrySp, Lit(4, 2)) :> e.entryArg)
    [] OTHER -> <<>>

\* what the relocation targets hold when the entry stub starts: the link-time
\* values, except that the OS loader has already rebased a PE image it placed
InitImage(t, m, e) ==
  CASE t = "standalone" -> <<>>
    [] t = "amd64_pe" /\ m = "os" ->
         [i \in DOMAIN e.link |-> AddW(e.link[i], PeDelta(e))]
    [] OTHER -> e.link

EntryLabel(t) ==
  CASE t = "amd64_elf" -> "e_nop"
    [] t = "amd64_pe" -> "w_nop"
    [] t = "i686_elf" -> "x_nop"
    [] t = "standalone" -> "s_and"

Init ==
  \E t \in Targets, m \in Modes :
    \E e \in Envs(t) :
      /\ t = "standalone" => m = "os"
      /\ target = t
      /\ mode = m
      /\ env = e
      /\ pc = EntryLabel(t)
      /\ reg = InitReg(t, e)
      /\ flags = [cf |-> 0, zf |-> 0]
      /\ mem = InitMem(t, e)
      /\ rstack = <<>>
      /\ shim = PushRcxOpcode
      /\ image = InitImage(t, m, e)
      /\ trace = <<>>
      /\ reads = {}
      /\ touched = <<>>
      /\ probe = [size |-> 0, callerSp |-> Lit(0, 4), calls |-> 0]
      /\ passes = 0

\* ------------------------------------------------------ instruction shapes
\* an instruction that only changes registers
RegStep(from, to, newreg) ==
  /\ pc = from
  /\ pc' = to
  /\ reg' = newreg
  /\ UNCHANGED <<target, mode, env, flags, mem, rstack, shim, image, trace,
                 reads, touched, probe, passes>>

\* mov dst, [addr]
LoadStep(from, to, dst, addr) ==
  /\ pc = from
  /\ pc' = to
  /\ reg' = [reg EXCEPT ![dst] = Load(addr)]
  /\ reads' = reads \cup {addr}
  /\ UNCHANGED <<target, mode, env, flags, mem, rstack, shim, image, trace,
                 touched, probe, passes>>

\* push src
PushStep(from, to, src) ==
  LET sp == SubW(reg[SpName(target)], Lit(WordBytes(target), Limbs(target)))
  IN /\ pc = from
     /\ pc' = to
     /\ mem' = (sp :> reg[src]) @@ mem
     /\ reg' = [reg EXCEPT ![SpName(target)] = sp]
     /\ UNCHANGED <<target, mode, env, flags, rstack, shim, image, trace,
                    reads, touched, probe, passes>>

\* pop dst
PopStep(from, to, dst) ==
  LET sp == reg[SpName(target)]
  IN /\ pc = from
     /\ pc' = to
     /\ reg' = [reg EXCEPT ![dst] = Load(sp),
                           ![SpName(target)] =
                               AddW(sp, Lit(WordBytes(target), Limbs(target)))]
     /\ UNCHANGED <<target, mode, env, flags, mem, rstack, shim, image, trace,
                    reads, touched, probe, passes>>

\* call callee: control goes to the callee, the return label on the return
\* stack (the return address itself is not data the stubs look at, except
\* for the local call of the x86 stub, which has its own action); the stack
\* pointer at the call instruction is recorded
CallStep(from, callee, fn, ret, args) ==
  LET sp == reg[SpName(target)]
  IN /\ pc = from
     /\ pc' = callee
     /\ rstack' = <<ret>> \o rstack
     /\ reg' = [reg EXCEPT ![SpName(target)] =
                             SubW(sp, Lit(WordBytes(target), Limbs(target)))]
     /\ trace' = Append(trace, Event("call", fn, sp, args))
     /\ UNCHANGED <<target, mode, env, flags, mem, shim, image, reads,
                    touched, probe, passes>>

\* the registers after a routine following the platform's calling convention
\* returns: the volatile ones hold whatever the routine left there
AfterReturn(clobber) ==
  [r \in DOMAIN reg |->
     IF r = SpName(target)
       THEN AddW(reg[r], Lit(WordBytes(target), Limbs(target)))
     ELSE IF r \in Volatile(target) THEN clobber
     ELSE reg[r]]

\* ---------------------------------------------------------- the relocators
\* mutant: the addend taken from the target itself (REL style, *target += base)
ElfRelocateImplicitAddend(img, link, base) ==
  [i \in DOMAIN img |-> AddW(img[i], base)]

\* ELF: *target = base + addend, entries in table order
ElfRelocate(img, link, base) ==
  [i \in DOMAIN img |-> AddW(base, link[i])]

\* PE: *target += delta, 64-bit pointer entries, in table order
PeRelocate(img, delta) ==
  [i \in DOMAIN img |-> AddW(img[i], delta)]

\* a relocation routine runs to its return
RelocateReturn(newimage) ==
  /\ pc' = Head(rstack)
  /\ rstack' = Tail(rstack)
  /\ image' = newimage
  /\ passes' = passes + 1
  /\ trace' = Append(trace, Event("ret", "relocate", reg[SpName(target)], <<>>))
  /\ UNCHANGED <<target, mode, env, flags, mem, shim, reads, touched, probe>>

\* loader::amd64_elf::relocate(rdi = image base, rsi = _DYNAMIC)
Amd64ElfRelocate ==
  /\ pc = "amd64_elf_relocate"
  /\ reg' = AfterReturn(env.clobber)
  /\ RelocateReturn(ElfRelocate(image, env.link, reg["rdi"]))

\* loader::amd64_pe::relocate(rdi = link-time image base, rsi = base in
\* memory, rdx = offset of the table, rcx = its size)
Amd64PeRelocate ==
  /\ pc = "amd64_pe_relocate"
  /\ reg' = AfterReturn(env.clobber)
  /\ RelocateReturn(PeRelocate(image, SubW(reg["rsi"], reg["rdi"])))

\* loader::i686_elf::relocate([esp+4] = image base, [esp+8] = _DYNAMIC)
I686ElfRelocate ==
  /\ pc = "i686_elf_relocate"
  /\ reg' = AfterReturn(env.clobber)
  /\ RelocateReturn(ElfRelocate(image, env.link,
                                Load(AddW(reg["esp"], Lit(4, 2)))))

\* -------------------------------------- _start, x86-64, not Windows (47-64)
ElfNop == RegStep("e_nop", "e_and", reg)

ElfAndRsp ==
  RegStep("e_and", "e_mov_rbx",
          [reg EXCEPT !["rsp"] = AndW(reg["rsp"], MaskLow(4, 16))])

\* mutant: the entry argument is not saved
ElfMovRbxRcxDropped == RegStep("e_mov_rbx", "e_lea_rdi", reg)

ElfMovRbxRcx ==
  RegStep("e_mov_rbx", "e_lea_rdi", [reg EXCEPT !["rbx"] = reg["rcx"]])

ElfLeaRdi ==
  RegStep("e_lea_rdi", "e_lea_rsi", [reg EXCEPT !["rdi"] = env.loadBase])

\* mutant: the stub goes on to the bootstrap without calling the relocator
ElfLeaRsiSkipsCall ==
  RegStep("e_lea_rsi", "e_mov_rdi",
          [reg EXCEPT !["rsi"] = AddW(env.loadBase, env.dynOff)])

ElfLeaRsi ==
  RegStep("e_lea_rsi", "e_call_reloc",
          [reg EXCEPT !["rsi"] = AddW(env.loadBase, env.dynOff)])

ElfCallRelocate ==
  CallStep("e_call_reloc", "amd64_elf_relocate", "relocate", "e_mov_rdi",
           <<reg["rdi"], reg["rsi"]>>)

ElfMovRdiRbx ==
  RegStep("e_mov_rdi", "e_call_start", [reg EXCEPT !["rdi"] = reg["rbx"]])

ElfCallStartRust ==
  CallStep("e_call_start", "start_rust", "_start_rust", "never",
           <<reg["rdi"]>>)

\* ------------------------------------------------------ _start_rust (166-170)
\* the first argument as the callee finds it
ServiceFunctionsArg ==
  CASE target = "amd64_elf" -> reg["rdi"]
    [] target = "amd64_pe" -> reg["rcx"]
    [] target = "i686_elf" -> Load(AddW(reg["esp"], Lit(4, 2)))

HostStep(from, to, ev) ==
  /\ pc = from
  /\ pc' = to
  /\ trace' = Append(trace, ev)
  /\ UNCHANGED <<target, mode, env, reg, flags, mem, rstack, shim, image,
                 reads, touched, probe, passes>>

PlatformInit ==
  HostStep("start_rust", "call_main",
           Event("host", "platform::init", reg[SpName(target)],
                 <<ServiceFunctionsArg>>))

SolutionMain ==
  HostStep("call_main", "in_main",
           Event("host", "solution::main", reg[SpName(target)], <<>>))

SolutionMainReturn ==
  HostStep("in_main", "call_exit",
           Event("ret", "solution::main", reg[SpName(target)], <<>>))

\* mutant: a non-zero exit status
ServicesExitStatusOne ==
  HostStep("call_exit", "exited",
           Event("host", "exit", reg[SpName(target)], <<Lit(1, Limbs(target))>>))

ServicesExit ==
  HostStep("call_exit", "exited",
           Event("host", "exit", reg[SpName(target)], <<Lit(0, Limbs(target))>>))

\* ------------------------------------------------- _start, main.rs (21-31)
StandaloneAndRsp ==
  RegStep("s_and", "s_main",
          [reg EXCEPT !["rsp"] = AndW(reg["rsp"], MaskLow(4, 16))])

StandaloneMain ==
  HostStep("s_main", "s_in_main",
           Event("host", "solution::main", reg["rsp"], <<>>))

StandaloneMainReturn ==
  HostStep("s_in_main", "s_syscall",
           Event("ret", "solution::main", reg["rsp"], <<>>))

StandaloneSyscall ==
  HostStep("s_syscall", "exited",
           Event("host", "syscall", reg["rsp"],
                 <<Lit(ExitGroup, 4), Lit(0, 4)>>))

\* ----------------------------------------- _start, x86-64, Windows (66-107)
\* a conditional jump
JumpStep(from, taken, fallthrough, cond) ==
  /\ pc = from
  /\ pc' = IF cond THEN taken ELSE fallthrough
  /\ UNCHANGED <<target, mode, env, reg, flags, mem, rstack, shim, image,
                 trace, reads, touched, probe, passes>>

PeNop == RegStep("w_nop", "w_and", reg)

PeAndRsp ==
  RegStep("w_and", "w_sub_rsp",
          [reg EXCEPT !["rsp"] = AndW(reg["rsp"], MaskLow(4, 32))])

PeSubRsp ==
  RegStep("w_sub_rsp", "w_mov_rbx",
          [reg EXCEPT !["rsp"] = SubW(reg["rsp"], Lit(ShadowSpace, 4))])

PeMovRbxRcx ==
  RegStep("w_mov_rbx", "w_ld_pd", [reg EXCEPT !["rbx"] = reg["rcx"]])

PeLoadPlatformData ==
  LoadStep("w_ld_pd", "w_ld_imagebase", "rax",
           AddW(reg["rbx"], Lit(PlatformDataOffset, 4)))

PeLoadImageBase ==
  LoadStep("w_ld_imagebase", "w_ld_base", "rdi", AddW(reg["rax"], Lit(24, 4)))

\* mutant: the base carrier read from +0 of the PlatformDescriptor
PeLoadBaseFromDescriptor ==
  LoadStep("w_ld_base", "w_ld_off", "rsi", AddW(reg["rax"], Lit(0, 4)))

PeLoadBase ==
  LoadStep("w_ld_base", "w_ld_off", "rsi", AddW(reg["rbx"], Lit(0, 4)))

PeLoadRelocOffset ==
  LoadStep("w_ld_off", "w_ld_size", "rdx", AddW(reg["rax"], Lit(32, 4)))

PeLoadRelocSize ==
  LoadStep("w_ld_size", "w_ld_leading", "rcx", AddW(reg["rax"], Lit(40, 4)))

PeLoadLeading ==
  LoadStep("w_ld_leading", "w_sub_rsi", "r8", AddW(reg["rax"], Lit(16, 4)))

PeSubRsiR8 ==
  RegStep("w_sub_rsi", "w_add_rdx",
          [reg EXCEPT !["rsi"] = SubW(reg["rsi"], reg["r8"])])

PeAddRdxR8 ==
  RegStep("w_add_rdx", "w_call_reloc",
          [reg EXCEPT !["rdx"] = AddW(reg["rdx"], reg["r8"])])

PeCallRelocate ==
  CallStep("w_call_reloc", "amd64_pe_relocate", "relocate", "w_ld_pd2",
           <<reg["rdi"], reg["rsi"], reg["rdx"], reg["rcx"]>>)

PeReloadPlatformData ==
  LoadStep("w_ld_pd2", "w_ld_flags", "rax",
           AddW(reg["rbx"], Lit(PlatformDataOffset, 4)))

PeLoadFlags ==
  LoadStep("w_ld_flags", "w_btc", "rdx", AddW(reg["rax"], Lit(8, 4)))

\* btc rdx, 0: the carry flag takes bit 0, and bit 0 is complemented
PeBtc ==
  /\ pc = "w_btc"
  /\ pc' = "w_jnc"
  /\ flags' = [flags EXCEPT !.cf = Bit0(reg["rdx"])]
  /\ reg' = [reg EXCEPT !["rdx"] =
               [@ EXCEPT ![1] = IF @ % 2 = 1 THEN @ - 1 ELSE @ + 1]]
  /\ UNCHANGED <<target, mode, env, mem, rstack, shim, image, trace, reads,
                 touched, probe, passes>>

\* mutant: jc in place of jnc
PeJc == JumpStep("w_jnc", "w_mov_rcx", "w_lea_chkstk", flags.cf = 1)

PeJnc == JumpStep("w_jnc", "w_mov_rcx", "w_lea_chkstk", flags.cf = 0)

PeLeaChkstk ==
  RegStep("w_lea_chkstk", "w_patch", [reg EXCEPT !["rcx"] = env.chkstk])

\* mov BYTE PTR [rcx], 0xc3
PePatch ==
  /\ pc = "w_patch"
  /\ pc' = "w_mov_rcx"
  /\ shim' = IF reg["rcx"] = env.chkstk THEN RetOpcode ELSE shim
  /\ trace' = Append(trace, Event("write", "byte", reg["rsp"],
                                  <<reg["rcx"], Lit(RetOpcode, 4)>>))
  /\ UNCHANGED <<target, mode, env, reg, flags, mem, rstack, image, reads,
                 touched, probe, passes>>

PeMovRcxRbx ==
  RegStep("w_mov_rcx", "w_call_start", [reg EXCEPT !["rcx"] = reg["rbx"]])

PeCallStartRust ==
  CallStep("w_call_start", "start_rust", "_start_rust", "never",
           <<reg["rcx"]>>)

\* ------------------------------------------------------ x86 leaves (109-131)
\* ret
RetStep(from) ==
  /\ pc = from
  /\ pc' = Head(rstack)
  /\ rstack' = Tail(rstack)
  /\ reg' = [reg EXCEPT ![SpName(target)] =
               AddW(@, Lit(WordBytes(target), Limbs(target)))]
  /\ UNCHANGED <<target, mode, env, flags, mem, shim, image, trace, reads,
                 touched, probe, passes>>

GetStartOffsetLea ==
  RegStep("gso_lea", "gso_ret", [reg EXCEPT !["eax"] = env.startOff])

GetStartOffsetRet == RetStep("gso_ret")

GetDynamicSectionOffsetLea ==
  RegStep("gdo_lea", "gdo_ret", [reg EXCEPT !["eax"] = env.dynOff])

GetDynamicSectionOffsetRet == RetStep("gdo_ret")

\* ------------------------------------------------------ _start, x86 (133-164)
\* encoded sizes of the four instructions ahead of label 1
NopLen == 1
MovEdiLen == 4
AndEspLen == 3
CallRel32Len == 5

\* where the x86 stub's label 1 sits in memory
Label1Address ==
  AddW(AddW(env.loadBase, env.startOff),
       Lit(NopLen + MovEdiLen + AndEspLen + CallRel32Len, 2))

X86Nop == RegStep("x_nop", "x_mov_edi", reg)

X86MovEdi ==
  LoadStep("x_mov_edi", "x_and", "edi", AddW(reg["esp"], Lit(4, 2)))

X86AndEsp ==
  RegStep("x_and", "x_call_local",
          [reg EXCEPT !["esp"] = AndW(reg["esp"], MaskLow(2, 16))])

\* call 1f: the address of label 1 is pushed and control falls to label 1
X86CallLocal ==
  LET sp == reg["esp"]
      nsp == SubW(sp, Lit(4, 2))
  IN /\ pc = "x_call_local"
     /\ pc' = "x_pop_ecx"
     /\ mem' = (nsp :> Label1Address) @@ mem
     /\ reg' = [reg EXCEPT !["esp"] = nsp]
     /\ trace' = Append(trace, Event("call", "1f", sp, <<>>))
     /\ UNCHANGED <<target, mode, env, flags, rstack, shim, image, reads,
                    touched, probe, passes>>

X86PopEcx == PopStep("x_pop_ecx", "x_call_gso", "ecx")

X86CallGetStartOffset ==
  CallStep("x_call_gso", "gso_lea", "_get_start_offset", "x_sub_ecx_eax", <<>>)

X86SubEcxEax ==
  RegStep("x_sub_ecx_eax", "x_sub_ecx_d",
          [reg EXCEPT !["ecx"] = SubW(reg["ecx"], reg["eax"])])

\* mutant: the opcode bytes ahead of label 1 miscounted
X86SubEcxTwelve ==
  RegStep("x_sub_ecx_d", "x_call_gdo",
          [reg EXCEPT !["ecx"] = SubW(reg["ecx"], Lit(12, 2))])

X86SubEcxD ==
  RegStep("x_sub_ecx_d", "x_call_gdo",
          [reg EXCEPT !["ecx"] = SubW(reg["ecx"], Lit(LocalCallOffset, 2))])

X86CallGetDynamicSectionOffset ==
  CallStep("x_call_gdo", "gdo_lea", "_get_dynamic_section_offset",
           "x_add_eax_ecx", <<>>)

X86AddEaxEcx ==
  RegStep("x_add_eax_ecx", "x_sub_esp",
          [reg EXCEPT !["eax"] = AddW(reg["eax"], reg["ecx"])])

\* mutant: the padding ahead of the two pushes is 4 bytes
X86SubEspFour ==
  RegStep("x_sub_esp", "x_push_eax",
          [reg EXCEPT !["esp"] = SubW(reg["esp"], Lit(4, 2))])

X86SubEsp ==
  RegStep("x_sub_esp", "x_push_eax",
          [reg EXCEPT !["esp"] = SubW(reg["esp"], Lit(8, 2))])

X86PushEax == PushStep("x_push_eax", "x_push_ecx", "eax")

X86PushEcx == PushStep("x_push_ecx", "x_call_reloc", "ecx")

X86CallRelocate ==
  CallStep("x_call_reloc", "i686_elf_relocate", "relocate", "x_add_esp",
           <<Load(reg["esp"]), Load(AddW(reg["esp"], Lit(4, 2)))>>)

X86AddEsp ==
  RegStep("x_add_esp", "x_push_edi",
          [reg EXCEPT !["esp"] = AddW(reg["esp"], Lit(4, 2))])

X86PushEdi == PushStep("x_push_edi", "x_call_start", "edi")

X86CallStartRust ==
  CallStep("x_call_start", "start_rust", "_start_rust", "never",
           <<Load(reg["esp"])>>)

\* --------------------------------------------------- __chkstk (172-197)
\* Flags: only the results of cmp and btc are kept; the flags that and, sub,
\* add and test leave are overwritten before any jump reads them.
FrameSizes ==
  {k * PageSize + r : k \in 0..MaxStrides, r \in {0, 1, PageSize - 1}}

\* compiled code with a large frame: the size in rax, then call __chkstk
AppCallChkstk ==
  \E size \in FrameSizes :
    /\ pc = "in_main"
    /\ target = "amd64_pe"
    /\ probe.calls < MaxProbes
    /\ pc' = "chk_entry"
    /\ rstack' = <<"in_main">> \o rstack
    /\ reg' = [reg EXCEPT !["rax"] = Lit(size, 4),
                          !["rsp"] = SubW(reg["rsp"], Lit(8, 4))]
    /\ probe' = [size |-> size, callerSp |-> reg["rsp"],
                 calls |-> probe.calls + 1]
    /\ touched' = <<>>
    /\ UNCHANGED <<target, mode, env, flags, mem, shim, image, trace, reads,
                   passes>>

\* test QWORD PTR [rcx], rcx
TouchStep(from, to) ==
  /\ pc = from
  /\ pc' = to
  /\ touched' = Append(touched, reg["rcx"])
  /\ UNCHANGED <<target, mode, env, reg, flags, mem, rstack, shim, image,
                 trace, reads, probe, passes>>

\* cmp rax, 4096
CmpRaxStep(from, to) ==
  /\ pc = from
  /\ pc' = to
  /\ flags' = [cf |-> BorrowW(reg["rax"], Lit(PageSize, 4)),
               zf |-> IF reg["rax"] = Lit(PageSize, 4) THEN 1 ELSE 0]
  /\ UNCHANGED <<target, mode, env, reg, mem, rstack, shim, image, trace,
                 reads, touched, probe, passes>>

\* the shim's first byte once the entry stub has patched it: ret
ChkstkPatchedRet ==
  /\ shim = RetOpcode
  /\ RetStep("chk_entry")

ChkstkPushRcx ==
  /\ shim = PushRcxOpcode
  /\ PushStep("chk_entry", "chk_push_rax", "rcx")

ChkstkPushRax == PushStep("chk_push_rax", "chk_cmp", "rax")

ChkstkCmp == CmpRaxStep("chk_cmp", "chk_lea")

ChkstkLea ==
  RegStep("chk_lea", "chk_jb",
          [reg EXCEPT !["rcx"] = AddW(reg["rsp"], Lit(24, 4))])

ChkstkJb == JumpStep("chk_jb", "chk_tail_sub", "chk_loop_sub", flags.cf = 1)

ChkstkLoopSubRcx ==
  RegStep("chk_loop_sub", "chk_loop_test",
          [reg EXCEPT !["rcx"] = SubW(reg["rcx"], Lit(PageSize, 4))])

ChkstkLoopTest == TouchStep("chk_loop_test", "chk_loop_sub_rax")

ChkstkLoopSubRax ==
  RegStep("chk_loop_sub_rax", "chk_loop_cmp",
          [reg EXCEPT !["rax"] = SubW(reg["rax"], Lit(PageSize, 4))])

ChkstkLoopCmp == CmpRaxStep("chk_loop_cmp", "chk_ja")

\* mutant: jb in place of ja
ChkstkJaAsJb ==
  JumpStep("chk_ja", "chk_loop_sub", "chk_tail_sub", flags.cf = 1)

ChkstkJa ==
  JumpStep("chk_ja", "chk_loop_sub", "chk_tail_sub",
           flags.cf = 0 /\ flags.zf = 0)

ChkstkTailSubRcx ==
  RegStep("chk_tail_sub", "chk_tail_test",
          [reg EXCEPT !["rcx"] = SubW(reg["rcx"], reg["rax"])])

ChkstkTailTest == TouchStep("chk_tail_test", "chk_pop_rax")

ChkstkPopRax == PopStep("chk_pop_rax", "chk_pop_rcx", "rax")

ChkstkPopRcx == PopStep("chk_pop_rcx", "chk_ret", "rcx")

ChkstkRet == RetStep("chk_ret")

\* application logic on the Windows build, after either outcome of the
\* entry stub's patch, at a stack pointer the bootstrap left or near zero
ProbeEnv == CHOOSE e \in EnvPe : TRUE

InitProbe ==
  \E sp \in {SubW(StackTop(4), Lit(72, 4)), Lit(2 * PageSize, 4)},
     sh \in {PushRcxOpcode, RetOpcode}, m \in Modes :
    /\ target = "amd64_pe"
    /\ mode = m
    /\ env = ProbeEnv
    /\ pc = "in_main"
    /\ reg = [InitReg("amd64_pe", ProbeEnv) EXCEPT !["rsp"] = sp]
    /\ flags = [cf |-> 0, zf |-> 0]
    /\ mem = <<>>
    /\ rstack = <<"call_exit">>
    /\ shim = sh
    /\ image = <<>>
    /\ trace = <<>>
    /\ reads = {}
    /\ touched = <<>>
    /\ probe = [size |-> 0, callerSp |-> Lit(0, 4), calls |-> 0]
    /\ passes = 0

NextProbe ==
  \/ AppCallChkstk \/ ChkstkPatchedRet \/ ChkstkPushRcx \/ ChkstkPushRax
  \/ ChkstkCmp \/ ChkstkLea \/ ChkstkJb \/ ChkstkLoopSubRcx \/ ChkstkLoopTest
  \/ ChkstkLoopSubRax \/ ChkstkLoopCmp \/ ChkstkJa \/ ChkstkTailSubRcx
  \/ ChkstkTailTest \/ ChkstkPopRax \/ ChkstkPopRcx \/ ChkstkRet

SpecProbe == InitProbe /\ [][NextProbe]_vars

\* ------------------------------------- the relocators applied repeatedly
LoadDeltas ==
  {Lit(0, 4), Lit(1, 4), Lit(PageSize, 4), <<0, 0, 0, 32768>>,
   <<0, 16384, 21845, 0>>, <<61440, 65535, 65535, 65535>>,
   <<0, 0, 1, 0>>, <<65535, 65535, 65535, 65535>>}

\* the load delta of an image: the base it sits at less the base it was
\* linked for (0 for the ELF builds)
LinkBase(t, e) == IF t = "amd64_pe" THEN e.imageBase ELSE Lit(0, 4)
LoadDelta(t, e) == SubW(e.base, LinkBase(t, e))

InitTwice ==
  \E t \in {"amd64_elf", "amd64_pe"}, d \in LoadDeltas, n \in 0..MaxRelocs :
    /\ target = t
    /\ mode = "loader"
    /\ env = [link |-> LinkValues(n, 4),
              imageBase |-> IF t = "amd64_pe" THEN <<0, 16384, 1, 0>>
                            ELSE Lit(0, 4),
              base |-> IF t = "amd64_pe" THEN AddW(<<0, 16384, 1, 0>>, d)
                       ELSE d]
    /\ pc = "relocator"
    /\ reg = <<>>
    /\ flags = [cf |-> 0, zf |-> 0]
    /\ mem = <<>>
    /\ rstack = <<>>
    /\ shim = PushRcxOpcode
    /\ image = LinkValues(n, 4)
    /\ trace = <<>>
    /\ reads = {}
    /\ touched = <<>>
    /\ probe = [size |-> 0, callerSp |-> Lit(0, 4), calls |-> 0]
    /\ passes = 0

PassStep(newimage) ==
  /\ pc = "relocator"
  /\ passes < MaxPasses
  /\ image' = newimage
  /\ passes' = passes + 1
  /\ UNCHANGED <<target, mode, env, pc, reg, flags, mem, rstack, shim, trace,
                 reads, touched, probe>>

ElfPass ==
  /\ target = "amd64_elf"
  /\ PassStep(ElfRelocate(image, env.link, env.base))

PePass ==
  /\ target = "amd64_pe"
  /\ PassStep(PeRelocate(image, SubW(env.base, env.imageBase)))

NextTwice == ElfPass \/ PePass

SpecTwice == InitTwice /\ [][NextTwice]_vars

Next ==
  \/ ElfNop \/ ElfAndRsp \/ ElfMovRbxRcx \/ ElfLeaRdi \/ ElfLeaRsi
  \/ ElfCallRelocate \/ Amd64ElfRelocate \/ ElfMovRdiRbx \/ ElfCallStartRust
  \/ PeNop \/ PeAndRsp \/ PeSubRsp \/ PeMovRbxRcx \/ PeLoadPlatformData
  \/ PeLoadImageBase \/ PeLoadBase \/ PeLoadRelocOffset \/ PeLoadRelocSize
  \/ PeLoadLeading \/ PeSubRsiR8 \/ PeAddRdxR8 \/ PeCallRelocate
  \/ Amd64PeRelocate \/ PeReloadPlatformData \/ PeLoadFlags \/ PeBtc \/ PeJnc
  \/ PeLeaChkstk \/ PePatch \/ PeMovRcxRbx \/ PeCallStartRust
  \/ X86Nop \/ X86MovEdi \/ X86AndEsp \/ X86CallLocal \/ X86PopEcx
  \/ X86CallGetStartOffset \/ GetStartOffsetLea \/ GetStartOffsetRet
  \/ X86SubEcxEax \/ X86SubEcxD \/ X86CallGetDynamicSectionOffset
  \/ GetDynamicSectionOffsetLea \/ GetDynamicSectionOffsetRet
  \/ X86AddEaxEcx \/ X86SubEsp \/ X86PushEax \/ X86PushEcx \/ X86CallRelocate
  \/ I686ElfRelocate \/ X86AddEsp \/ X86PushEdi \/ X86CallStartRust
  \/ PlatformInit \/ SolutionMain \/ SolutionMainReturn \/ ServicesExit
  \/ StandaloneAndRsp \/ StandaloneMain \/ StandaloneMainReturn
  \/ StandaloneSyscall

Spec == Init /\ [][Next]_vars

\* ================================================================= claims
Events(kind, fn) ==
  {i \in DOMAIN trace : trace[i].ev = kind /\ trace[i].fn = fn}

StubTargets == {"amd64_elf", "amd64_pe", "i686_elf"}

\* everything that belongs to the bootstrap function and what it calls
BootstrapEvents ==
  Events("call", "_start_rust")
    \cup {i \in DOMAIN trace : trace[i].ev = "host"}

HostSteps ==
  LET h == SelectSeq(trace, LAMBDA e :
             e.ev = "host" \/ (e.ev = "ret" /\ e.fn = "solution::main"))
  IN [i \in DOMAIN h |-> <<h[i].ev, h[i].fn, h[i].args>>]

IsPrefix(a, b) == Len(a) <= Len(b) /\ a = SubSeq(b, 1, Len(a))

\* the argument _start_rust was called with
ReceivedArg ==
  LET c == Events("call", "_start_rust")
  IN IF c = {} THEN <<>> ELSE <<trace[CHOOSE i \in c : TRUE].args[1]>>

BootstrapOrder ==
  << <<"host", "platform::init", ReceivedArg>>,
     <<"host", "solution::main", <<>>>>,
     <<"ret", "solution::main", <<>>>>,
     <<"host", "exit", <<Lit(0, Limbs(target))>>>> >>

StandaloneOrder ==
  << <<"host", "solution::main", <<>>>>,
     <<"ret", "solution::main", <<>>>>,
     <<"host", "syscall", <<Lit(231, 4), Lit(0, 4)>>>> >>

\* C2: once bootstrap starts: platform::init from the received address, then
\* solution::main, then exit(0), each once, and nothing after; in main.rs:
\* solution::main, then system call 231 with status 0, nothing else before.
C2_BootstrapOrder ==
  LET order == IF target = "standalone" THEN StandaloneOrder
               ELSE BootstrapOrder
  IN /\ IsPrefix(HostSteps, order)
     /\ HostSteps # <<>> /\ target # "standalone" =>
          Events("call", "_start_rust") # {}
     /\ pc = "exited" => HostSteps = order /\ ~ ENABLED Next

C2_Witness ==
  /\ pc = "exited"
  /\ target = "amd64_pe"
  /\ Len(HostSteps) = 4

\* C3: at each call instruction of an entry stub the stack pointer's low 4
\* bits (System V stubs) or low 5 bits (Microsoft x64 stub) are zero.
C3_CallAlignment ==
  \A i \in DOMAIN trace :
    trace[i].ev = "call" =>
      trace[i].sp[1] % (IF target = "amd64_pe" THEN 32 ELSE 16) = 0

C3_Witness ==
  /\ target = "i686_elf"
  /\ env.entrySp[1] % 16 = 13
  /\ Cardinality({i \in DOMAIN trace : trace[i].ev = "call"}) = 5

PdField(off) == AddW(env.pd, Lit(off, 4))
SftField(off) == AddW(env.entryArg, Lit(off, 4))

\* C4 as stated: every value the Windows stub consumes is read from the
\* PlatformDescriptor (+0, +8, +16, +24, +32, +40), whose address comes from
\* +72 of the ServiceFunctionTable; nothing is read from any other address.
C4_Original ==
  target = "amd64_pe" =>
    reads \subseteq
      {SftField(72), PdField(0), PdField(8), PdField(16), PdField(24),
       PdField(32), PdField(40)}

PeReadSet ==
  {SftField(72), SftField(0), PdField(8), PdField(16), PdField(24),
   PdField(32), PdField(40)}

\* C4 amended: the base carrier is read from +0 of the ServiceFunctionTable;
\* the PlatformDescriptor address from +72 of it; flags, leading-byte count,
\* image base, table offset and table size from +8, +16, +24, +32, +40 of the
\* PlatformDescriptor; nothing else is read, and these are the values the
\* relocation routine is called with. (The non-Windows x86-64 stub loads
\* nothing from either table.)
C4_DescriptorReads ==
  /\ target = "amd64_elf" => reads = {}
  /\ target = "amd64_pe" =>
      /\ reads \subseteq PeReadSet
      /\ \A i \in Events("call", "relocate") :
           trace[i].args = <<env.imageBase, SubW(env.memBase, env.leading),
                             AddW(env.relocOff, env.leading), env.relocSize>>
      /\ pc = "w_btc" => reg["rdx"] = env.flagsWord
      /\ pc = "exited" => reads = PeReadSet

C4_Witness ==
  /\ target = "amd64_pe"
  /\ pc = "exited"
  /\ reads = PeReadSet
  /\ env.leading # Lit(0, 4)

\* C5: when the OS itself launched the Windows x86-64 binary, the entry stub
\* never calls the PE relocation routine.
C5_NoPeRelocateUnderOs ==
  (target = "amd64_pe" /\ mode = "os") => Events("call", "relocate") = {}

\* C6: the first byte of __chkstk becomes 0xC3 iff bit 0 of the flags word is
\* set; the write happens at most once, after the relocation call returned
\* and before _start_rust starts; with the bit clear the shim is unchanged.
C6_PatchIffFlag ==
  target = "amd64_pe" =>
    LET w == Events("write", "byte")
    IN /\ shim \in {PushRcxOpcode, RetOpcode}
       /\ Cardinality(w) <= 1
       /\ \A i \in w :
            /\ trace[i].args = <<env.chkstk, Lit(RetOpcode, 4)>>
            /\ \E r \in Events("ret", "relocate") : r < i
            /\ \A b \in BootstrapEvents : i < b
       /\ shim = RetOpcode <=> w # {}
       /\ Bit0(env.flagsWord) = 0 => shim = PushRcxOpcode
       /\ (Bit0(env.flagsWord) = 1 /\ BootstrapEvents # {}) =>
            shim = RetOpcode

C6_Witness ==
  /\ target = "amd64_pe"
  /\ pc = "exited"
  /\ shim = RetOpcode
  /\ env.flagsWord = Lit(3, 4)

\* the register that carries the entry argument across the relocation call
SavedIn == IF target = "i686_elf" THEN "edi" ELSE "rbx"

\* C9: the first argument of _start_rust is the entry argument the stub
\* received, whatever the relocation routine leaves in the registers it may
\* clobber; across the relocation call the stub keeps it in rbx / edi.
C9_ArgumentPreserved ==
  target \in StubTargets =>
    /\ \A i \in Events("call", "_start_rust") :
         trace[i].args = <<env.entryArg>>
    /\ pc = "call_main" => ReceivedArg = <<env.entryArg>>
    /\ \A i \in DOMAIN trace :
         (trace[i].ev = "host" /\ trace[i].fn = "platform::init") =>
           trace[i].args = <<env.entryArg>>
    /\ (Events("call", "relocate") # {} /\ Events("call", "_start_rust") = {})
         => reg[SavedIn] = env.entryArg

C9_Witness ==
  /\ target = "amd64_elf"
  /\ Events("call", "_start_rust") # {}
  /\ reg["rcx"] # env.entryArg
  /\ reg["rbx"] = env.entryArg

\* C10: the x86 stub calls the relocation routine with the image base,
\* computed as (return address of the local call - 0xD - _get_start_offset()),
\* and with that base plus _get_dynamic_section_offset(), in 32-bit wrapping
\* arithmetic; the leaf calls change eax only.
C10_X86ImageBase ==
  target = "i686_elf" =>
    /\ \A i \in Events("call", "relocate") :
         /\ trace[i].args[1] = env.loadBase
         /\ trace[i].args[1] =
              SubW(SubW(Label1Address, Lit(13, 2)), env.startOff)
         /\ trace[i].args[2] = AddW(env.loadBase, env.dynOff)
    /\ pc = "x_sub_ecx_eax" =>
         /\ reg["ecx"] = Label1Address
         /\ reg["eax"] = env.startOff
         /\ reg["edi"] = env.entryArg
         /\ reg["esp"] = AndW(env.entrySp, MaskLow(2, 16))
    /\ pc = "x_add_eax_ecx" =>
         /\ reg["ecx"] = env.loadBase
         /\ reg["eax"] = env.dynOff
         /\ reg["edi"] = env.entryArg
         /\ reg["esp"] = AndW(env.entrySp, MaskLow(2, 16))

\* a load address so high that the stub's own address wraps past 2^32
C10_Witness ==
  /\ target = "i686_elf"
  /\ Events("call", "relocate") # {}
  /\ env.loadBase = <<61440, 65535>>
  /\ Label1Address[2] = 0

\* ---- __chkstk (SpecProbe)
ProbeDone ==
  pc = "in_main" /\ probe.calls > 0 /\ shim = PushRcxOpcode

\* a <= b, unsigned
LeqW(a, b) == BorrowW(b, a) = 0

StridesCovered ==
  \A j \in 1..(probe.size \div PageSize) :
    \E i \in DOMAIN touched :
      touched[i] = SubW(probe.callerSp, Lit(j * PageSize, 4))

FinalTouch ==
  /\ touched # <<>>
  /\ touched[Len(touched)] = SubW(probe.callerSp, Lit(probe.size, 4))

\* C7 as stated: strides of 4096 from the caller's stack pointer, one touch
\* per stride; the loop is left only with fewer than 4096 bytes remaining;
\* the last touch is at (caller sp - size); every stride is touched, in
\* descending address order.
C7_Original ==
  /\ pc = "chk_tail_sub" => BorrowW(reg["rax"], Lit(PageSize, 4)) = 1
  /\ ProbeDone =>
       /\ FinalTouch
       /\ StridesCovered
       /\ \A i \in 1..(Len(touched) - 1) :
            LET d == SubW(touched[i], touched[i + 1])
            IN d # Lit(0, 4) /\ LeqW(d, Lit(PageSize, 4))

\* C7 amended: the loop is left when at most 4096 bytes remain (exactly 4096
\* for a multiple of 4096 from 8192 up); the last touch is at
\* (caller sp - size); every stride is touched, in non-increasing order, no
\* two successive touches more than 4096 apart, the first at most 4096
\* below the caller's stack pointer.
C7_ChkstkStrides ==
  /\ pc = "chk_tail_sub" => LeqW(reg["rax"], Lit(PageSize, 4))
  /\ pc \in {"chk_loop_sub", "chk_loop_test"} =>
       LeqW(Lit(PageSize, 4), reg["rax"])
  /\ ProbeDone =>
       /\ FinalTouch
       /\ StridesCovered
       /\ LeqW(SubW(probe.callerSp, touched[1]), Lit(PageSize, 4))
       /\ \A i \in 1..(Len(touched) - 1) :
            LeqW(SubW(touched[i], touched[i + 1]), Lit(PageSize, 4))
       /\ Len(touched) <= probe.size \div PageSize + 1
       /\ reg["rax"] = Lit(probe.size, 4)
       /\ reg["rsp"] = probe.callerSp

C7_Witness ==
  /\ ProbeDone
  /\ probe.size = 2 * PageSize
  /\ Len(touched) = 2

\* ---- the relocators applied twice (SpecTwice)
Relocated(i) == AddW(env.link[i], LoadDelta(target, env))

\* C8 as stated: for each variant and a non-zero load delta, after two passes
\* some listed location no longer equals its link-time value plus the delta.
C8_Original ==
  (passes = 2 /\ LoadDelta(target, env) # Lit(0, 4)) =>
    \E i \in DOMAIN image : image[i] # Relocated(i)

\* C8 amended: after two passes of the PE variant with a non-zero delta
\* every listed location holds its link-time value plus twice the delta, so
\* none equals link-time value plus delta; the ELF variant is idempotent:
\* after any number of passes every listed location equals link-time value
\* plus delta.
C8_SecondPass ==
  /\ (target = "amd64_pe" /\ passes = 2) =>
       \A i \in DOMAIN image :
         /\ image[i] = AddW(Relocated(i), LoadDelta(target, env))
         /\ LoadDelta(target, env) # Lit(0, 4) => image[i] # Relocated(i)
  /\ (target = "amd64_elf" /\ passes >= 1) =>
       \A i \in DOMAIN image : image[i] = Relocated(i)
  /\ passes = 1 => \A i \in DOMAIN image : image[i] = Relocated(i)

C8_Witness ==
  /\ target = "amd64_pe"
  /\ passes = 2
  /\ Len(image) = 2
  /\ LoadDelta(target, env) = <<0, 0, 0, 32768>>

====
